---------------------------- MODULE Spec2Model ----------------------------
(***************************************************************************)
(* Model of etl_ecb_exchange_rates.py: the ECB exchange-rate ETL pipeline. *)
(*                                                                         *)
(* Values.  A Python float is a reduced fraction [t |-> "num", n, d], NaN  *)
(* is [t |-> "nan"], a string cell is [t |-> "str", s].  An exception is   *)
(* [st |-> "raise", exc |-> <Python exception class>, ...], a returned     *)
(* value is [st |-> "ok", val |-> ...].                                    *)
(***************************************************************************)
EXTENDS Integers, Sequences, FiniteSets, TLC

VARIABLES
    pc,          \* position of main()
    out_file,    \* content of OUTPUT_FILE on disk
    file0,       \* content of OUTPUT_FILE before the run
    stdout,      \* lines printed by main()
    error,       \* the exception that terminated main(), or NoError
    gets,        \* sequence of URLs requested with requests.get
    steps,       \* calls main() has started, in order
    daily_zip, hist_zip, daily_csv, hist_csv,
    daily_df, hist_df, latest, means, rows,   \* locals of main()
    call,        \* a direct call of one function: its name and arguments
    ret          \* the outcome of that call

vars == <<pc, out_file, file0, stdout, error, gets, steps, daily_zip, hist_zip,
          daily_csv, hist_csv, daily_df, hist_df, latest, means, rows, call, ret>>

mainVars == <<pc, out_file, file0, stdout, error, gets, steps, daily_zip, hist_zip,
              daily_csv, hist_csv, daily_df, hist_df, latest, means, rows>>

-----------------------------------------------------------------------------
(* Bounds of the model *)

MaxMembers == 3      \* members of an archive in a direct call
MaxRows == 2         \* rows of a table in a direct call
MaxCodes == 2        \* length of a currency list in a direct call

-----------------------------------------------------------------------------
(* Outcomes *)

Ok(v) == [st |-> "ok", val |-> v]
Raise(e) == [st |-> "raise"] @@ e
Pending == [st |-> "pending"]
Unset == [st |-> "unset"]
NoError == [st |-> "none"]

IsOk(r) == r.st = "ok"
IsRaise(r) == r.st = "raise"

-----------------------------------------------------------------------------
(* Floats *)

RECURSIVE Gcd(_, _)
Gcd(a, b) == IF b = 0 THEN a ELSE Gcd(b, a % b)

Num(n, d) == LET g == Gcd(n, d) IN
             IF n = 0 THEN [t |-> "num", n |-> 0, d |-> 1]
                      ELSE [t |-> "num", n |-> n \div g, d |-> d \div g]
NaN == [t |-> "nan"]
Str(s) == [t |-> "str", s |-> s]

IsNum(c) == c.t = "num"

-----------------------------------------------------------------------------
(* Archives: zipfile.ZipFile over bytes.  A member name is its stem and    *)
(* its last four characters; bytes that are no archive are Junk.           *)

Junk == [kind |-> "junk"]
Zip(ms) == [kind |-> "zip", members |-> ms]

StrLower(s) == CASE s = ".CSV" -> ".csv"
                 [] s = ".Csv" -> ".csv"
                 [] s = ".TXT" -> ".txt"
                 [] OTHER -> s

\* n.lower().endswith(".csv")
EndsWithCsv(name) == StrLower(name.suffix) = ".csv"

namelist(zf) == [i \in 1..Len(zf.members) |-> zf.members[i].name]

Max(S) == CHOOSE x \in S : \A y \in S : y <= x

\* ZipFile.read(name): the member NameToInfo[name], which is the last member
\* of the archive that bears the name
zf_read(zf, name) ==
    LET idx == {i \in 1..Len(zf.members) : zf.members[i].name = name} IN
    IF idx = {} THEN Raise([exc |-> "KeyError", what |-> "no item in archive"])
    ELSE Ok(zf.members[Max(idx)].data)

read_first_csv_from_zip_names(zip_bytes) ==
    IF zip_bytes.kind # "zip"
    THEN Raise([exc |-> "BadZipFile", what |-> "not a zip file"])
    ELSE LET names == namelist(zip_bytes)
             csv_names == SelectSeq(names, EndsWithCsv)
         IN IF csv_names = <<>>
            THEN Raise([exc |-> "ValueError", what |-> "no csv files", names |-> csv_names])
            ELSE zf_read(zip_bytes, csv_names[1])

read_first_csv_from_zip(zip_bytes) ==
    IF zip_bytes.kind # "zip"
    THEN Raise([exc |-> "BadZipFile", what |-> "not a zip file"])
    ELSE LET names == namelist(zip_bytes)
             csv_names == SelectSeq(names, EndsWithCsv)
         IN IF csv_names = <<>>
            THEN Raise([exc |-> "ValueError", what |-> "no csv files", names |-> namelist(zip_bytes)])
            ELSE zf_read(zip_bytes, csv_names[1])

-----------------------------------------------------------------------------
(* dict: insertion-ordered, a sequence of <<key, value>> pairs with        *)
(* distinct keys.                                                          *)

EmptyDict == <<>>
DictKeys(d) == {d[i][1] : i \in 1..Len(d)}
DictKeySeq(d) == [i \in 1..Len(d) |-> d[i][1]]
\* d[k]
DictGet(d, k) ==
    IF k \in DictKeys(d)
    THEN Ok(d[CHOOSE i \in 1..Len(d) : d[i][1] = k][2])
    ELSE Raise([exc |-> "KeyError", key |-> k])
\* d[k] = v
DictSet(d, k, v) ==
    IF k \in DictKeys(d)
    THEN [i \in 1..Len(d) |-> IF d[i][1] = k THEN <<k, v>> ELSE d[i]]
    ELSE Append(d, <<k, v>>)

-----------------------------------------------------------------------------
(* Tables.  CSV bytes are a header of raw labels and rows of raw cells; a  *)
(* raw label is its text and the count of blanks around it.  A DataFrame   *)
(* is its column labels and its rows of cells.                             *)

Raw(lead, core, trail) == [lead |-> lead, core |-> core, trail |-> trail]
Label(code) == Raw(0, code, 0)
Csv(header, body) == [kind |-> "csv", header |-> header, rows |-> body]
DataFrame(columns, data) == [columns |-> columns, data |-> data]

\* str.strip() of a column label
strip(label) == Raw(0, label.core, 0)

\* a field as pandas.read_csv types it: an empty or N/A field is NaN
read_field(c) == IF c.t = "str" /\ c.s \in {"", "N/A"} THEN NaN ELSE c

\* pd.read_csv, then df.columns.str.strip().  read_csv fails on empty bytes
\* and on a row of more fields than the header; it pads a short row with NaN.
csv_bytes_to_dataframe(csv_bytes) ==
    IF csv_bytes.header = <<>>
    THEN Raise([exc |-> "EmptyDataError", what |-> "no columns to parse from file"])
    ELSE IF \E r \in 1..Len(csv_bytes.rows) : Len(csv_bytes.rows[r]) > Len(csv_bytes.header)
    THEN Raise([exc |-> "ParserError", what |-> "error tokenizing data"])
    ELSE Ok(DataFrame([i \in 1..Len(csv_bytes.header) |-> strip(csv_bytes.header[i])],
            [r \in 1..Len(csv_bytes.rows) |->
                [i \in 1..Len(csv_bytes.header) |->
                    IF i <= Len(csv_bytes.rows[r]) THEN read_field(csv_bytes.rows[r][i]) ELSE NaN]]))

\* cur in df.columns
HasColumn(df, cur) == \E i \in 1..Len(df.columns) : df.columns[i] = Label(cur)
ColIdx(df, cur) == CHOOSE i \in 1..Len(df.columns) : df.columns[i] = Label(cur)
\* list(df.columns)
ColumnList(df) == df.columns
\* df[cur]
Column(df, cur) == [r \in 1..Len(df.data) |-> df.data[r][ColIdx(df, cur)]]

\* float(x) of a cell
float(x) == IF x.t = "str"
            THEN Raise([exc |-> "ValueError", what |-> "could not convert string to float"])
            ELSE Ok(x)

\* df.iloc[-1]
iloc_last(df) == IF Len(df.data) = 0
                 THEN Raise([exc |-> "IndexError", what |-> "single positional indexer is out-of-bounds"])
                 ELSE Ok(df.data[Len(df.data)])

iloc_first(df) == IF Len(df.data) = 0
                  THEN Raise([exc |-> "IndexError", what |-> "single positional indexer is out-of-bounds"])
                  ELSE Ok(df.data[1])

\* the loop of extract_latest_rates from its i-th currency on
RECURSIVE latest_loop(_, _, _, _, _)
latest_loop(df, daily_last_row, currencies, i, rates) ==
    IF i > Len(currencies) THEN Ok(rates)
    ELSE LET cur == currencies[i] IN
         IF ~HasColumn(df, cur)
         THEN Raise([exc |-> "ValueError", what |-> "not in the ecb column",
                     code |-> cur, columns |-> ColumnList(df)])
         ELSE LET v == float(daily_last_row[ColIdx(df, cur)]) IN
              IF IsRaise(v) THEN v
              ELSE latest_loop(df, daily_last_row, currencies, i + 1,
                               DictSet(rates, cur, v.val))

extract_latest_rates_first(df, currencies) ==
    LET daily_last_row == iloc_first(df) IN
    IF IsRaise(daily_last_row) THEN daily_last_row
    ELSE latest_loop(df, daily_last_row.val, currencies, 1, EmptyDict)

extract_latest_rates(df, currencies) ==
    LET daily_last_row == iloc_last(df) IN
    IF IsRaise(daily_last_row) THEN daily_last_row
    ELSE latest_loop(df, daily_last_row.val, currencies, 1, EmptyDict)

\* pd.to_numeric(series, errors="coerce"): what is no number becomes NaN
to_numeric(series) == [r \in 1..Len(series) |-> IF IsNum(series[r]) THEN series[r] ELSE NaN]
\* a fillna(0.0) in the place of dropna()
fillna0(series) == [r \in 1..Len(series) |-> IF IsNum(series[r]) THEN series[r] ELSE Num(0, 1)]
dropna(series) == SelectSeq(series, IsNum)

Add(a, b) == Num(a.n * b.d + b.n * a.d, a.d * b.d)
RECURSIVE Sum(_)
Sum(series) == IF series = <<>> THEN Num(0, 1) ELSE Add(Head(series), Sum(Tail(series)))

\* a mean that is 0.0 for an empty series
mean_empty_zero(series) == IF series = <<>> THEN Num(0, 1)
                           ELSE LET s == Sum(series) IN Num(s.n, s.d * Len(series))

\* Series.mean(): NaN for an empty series
mean(series) == IF series = <<>> THEN NaN
                ELSE LET s == Sum(series) IN Num(s.n, s.d * Len(series))

\* the loop of extract_average_history_rates from its i-th currency on
RECURSIVE history_loop(_, _, _, _)
history_loop(df, currencies, i, acc) ==
    IF i > Len(currencies) THEN Ok(acc)
    ELSE LET cur == currencies[i] IN
         IF ~HasColumn(df, cur)
         THEN Raise([exc |-> "ValueError", what |-> "not in the ecb historical columns",
                     code |-> cur, columns |-> ColumnList(df)])
         ELSE LET series == to_numeric(Column(df, cur))
                  m == float(mean(dropna(series)))
              IN history_loop(df, currencies, i + 1, DictSet(acc, cur, m.val))

extract_average_history_rates(df, currencies) ==
    history_loop(df, currencies, 1, EmptyDict)

-----------------------------------------------------------------------------
(* Configuration *)

DAILY_ZIP_URL == "https://www.ecb.europa.eu/stats/eurofxref/eurofxref.zip"
HISTORY_ZIP_URL == "https://www.ecb.europa.eu/stats/eurofxref/eurofxref-hist.zip"
CURRENCIES == <<"USD", "SEK", "GBP", "JPY">>
OUTPUT_FILE == "exchange_rates.md"

ExchangeRow(code, rate, m) == [currency_code |-> code, rate |-> rate, mean_historical_rate |-> m]

\* the loop of build_output_rows from its i-th currency on
RECURSIVE rows_loop(_, _, _, _, _)
rows_loop(latest_rates, historical_means, currencies, i, acc) ==
    IF i > Len(currencies) THEN Ok(acc)
    ELSE LET cur == currencies[i]
             r == DictGet(latest_rates, cur)
             m == DictGet(historical_means, cur)
         IN IF IsRaise(r) THEN r
            ELSE IF IsRaise(m) THEN m
            ELSE rows_loop(latest_rates, historical_means, currencies, i + 1,
                           Append(acc, ExchangeRow(cur, r.val, m.val)))

\* a variant that walks the latest-rate mapping in its insertion order
build_output_rows_dict_order(latest_rates, historical_means, currencies) ==
    LET r == rows_loop(latest_rates, historical_means, currencies, 1, <<>>) IN
    IF IsRaise(r) THEN r
    ELSE rows_loop(latest_rates, historical_means, DictKeySeq(latest_rates), 1, <<>>)

build_output_rows(latest_rates, historical_means, currencies) ==
    rows_loop(latest_rates, historical_means, currencies, 1, <<>>)

-----------------------------------------------------------------------------
(* The report *)

Million == 1000000

\* f"{x:.6f}": the millionths of x rounded to the nearest, or "nan"
Fmt6(x) == IF x.t = "nan" THEN [k |-> "nan"]
           ELSE LET micro == (2 * x.n * Million + x.d) \div (2 * x.d) IN
                [k |-> "fixed", whole |-> micro \div Million, frac |-> micro % Million]

NoFile == [exists |-> FALSE]
File(chunks) == [exists |-> TRUE, chunks |-> chunks]
Newline == [k |-> "newline"]

\* output_df.to_markdown(index=False) of the formatted frame: the header
\* and one line per row, holding the cells as they were formatted
to_markdown(output_df) ==
    [k |-> "table",
     header |-> <<"Currency Code", "Rate", "Mean Historical Rate">>,
     body |-> output_df]

\* What the run finds around it when it writes: "ok", a path that cannot be
\* opened for writing, a pandas without its optional tabulate dependency, or
\* a device without space left.
Envs == {"ok", "unwritable", "no_tabulate", "disk_full"}

\* write_markdown_table(rows, OUTPUT_FILE) on a disk where the file is f:
\* the outcome and the file afterwards
write_markdown_table(rs, f, env) ==
    IF rs = <<>>
    THEN [out |-> Raise([exc |-> "KeyError", key |-> "Rate"]), file |-> f]
    ELSE LET output_df == [i \in 1..Len(rs) |->
                 [code |-> rs[i].currency_code,
                  rate |-> Fmt6(rs[i].rate),
                  mean |-> Fmt6(rs[i].mean_historical_rate)]]
         IN IF env = "unwritable"
            THEN [out |-> Raise([exc |-> "PermissionError", what |-> OUTPUT_FILE]), file |-> f]
            ELSE IF env = "no_tabulate"
            THEN [out |-> Raise([exc |-> "ImportError", what |-> "tabulate"]), file |-> File(<<>>)]
            ELSE IF env = "disk_full"
            THEN [out |-> Raise([exc |-> "OSError", what |-> "no space left on device"]),
                  file |-> File(<<>>)]
            ELSE [out |-> Ok("None"), file |-> File(<<to_markdown(output_df), Newline>>)]

-----------------------------------------------------------------------------
(* The network *)

\* requests.get, raise_for_status, response.content
download_zip(resp) ==
    IF resp.kind = "timeout"
    THEN Raise([exc |-> "Timeout", what |-> "read timed out"])
    ELSE IF resp.status >= 400 /\ resp.status < 600
    THEN Raise([exc |-> "HTTPError", status |-> resp.status])
    ELSE Ok(resp.content)

-----------------------------------------------------------------------------
(* What the two URLs may serve *)

Date(d) == Str(d)
Header4 == <<Raw(0, "Date", 0), Raw(1, "USD", 0), Raw(1, "SEK", 0), Raw(1, "GBP", 0), Raw(1, "JPY", 0)>>
Row4(d, usd, sek, gbp, jpy) == <<Date(d), usd, sek, gbp, jpy>>

CsvEmpty == Csv(<<>>, <<>>)
CsvHeaderOnly == Csv(Header4, <<>>)
CsvOne == Csv(Header4, <<Row4("2020-01-01", Num(12, 10), Num(10, 1), Num(8, 10), Num(130, 1))>>)
CsvThree == Csv(Header4,
    <<Row4("2020-01-01", Num(1, 1), Num(10, 1), Num(8, 10), Num(120, 1)),
      Row4("2020-01-02", Str(""), Num(11, 1), Num(9, 10), Num(121, 1)),
      Row4("2020-01-03", Num(3, 1), Num(12, 1), Num(1, 1), Num(122, 1))>>)
CsvBlankUSD == Csv(Header4,
    <<Row4("2020-01-01", Str(""), Num(10, 1), Num(8, 10), Num(120, 1)),
      Row4("2020-01-02", Str("N/A"), Num(11, 1), Num(9, 10), Num(121, 1))>>)
CsvTextSEK == Csv(Header4,
    <<Row4("2020-01-01", Num(1, 1), Num(10, 1), Num(8, 10), Num(120, 1)),
      Row4("2020-01-02", Num(2, 1), Str("abc"), Num(9, 10), Num(121, 1))>>)
CsvNoGBP == Csv(<<Raw(0, "Date", 0), Raw(1, "USD", 0), Raw(1, "SEK", 0), Raw(1, "JPY", 0)>>,
    <<<<Date("2020-01-01"), Num(12, 10), Num(10, 1), Num(130, 1)>>>>)
CsvRagged == Csv(Header4,
    <<Row4("2020-01-01", Num(1, 1), Num(10, 1), Num(8, 10), Num(120, 1)),
      Row4("2020-01-02", Num(2, 1), Num(11, 1), Num(9, 10), Num(121, 1)) \o <<Num(7, 1)>>>>)

MainCsvs == {CsvEmpty, CsvHeaderOnly, CsvOne, CsvThree, CsvBlankUSD, CsvTextSEK, CsvNoGBP, CsvRagged}

Name(stem, suffix) == [stem |-> stem, suffix |-> suffix]
Member(name, data) == [name |-> name, data |-> data]
Readme == Member(Name("readme", ".txt"), Csv(<<Raw(0, "notes", 0)>>, <<>>))

MainZips == {Junk, Zip(<<Readme>>)}
            \cup {Zip(<<Readme, Member(Name("eurofxref", ".csv"), c)>>) : c \in MainCsvs}

Responses == {[kind |-> "timeout"], [kind |-> "http", status |-> 404, content |-> Junk]}
             \cup {[kind |-> "http", status |-> 200, content |-> z] : z \in MainZips}

OldFile == File(<<[k |-> "text", id |-> "previous report"]>>)

-----------------------------------------------------------------------------
(* main() *)

Order == <<"download_daily", "download_hist", "read_daily", "parse_daily", "read_hist",
           "parse_hist", "extract_latest", "extract_means", "build_rows", "write", "print">>

Idle == /\ pc = "idle" /\ out_file = NoFile /\ file0 = NoFile /\ stdout = <<>>
        /\ error = NoError /\ gets = <<>> /\ steps = <<>>
        /\ daily_zip = Unset /\ hist_zip = Unset /\ daily_csv = Unset /\ hist_csv = Unset
        /\ daily_df = Unset /\ hist_df = Unset /\ latest = Unset /\ means = Unset
        /\ rows = Unset

Init == /\ pc = "download_daily"
        /\ file0 \in {NoFile, OldFile}
        /\ out_file = file0
        /\ stdout = <<>> /\ error = NoError /\ gets = <<>> /\ steps = <<>>
        /\ daily_zip = Unset /\ hist_zip = Unset /\ daily_csv = Unset /\ hist_csv = Unset
        /\ daily_df = Unset /\ hist_df = Unset /\ latest = Unset /\ means = Unset
        /\ rows = Unset
        /\ call = Unset /\ ret = Unset

\* an exception leaves main(): nothing catches it
Abort(r) == /\ pc' = "failed"
            /\ error' = r

\* a download that asks a second time when the first request fails
DownloadDaily_retry ==
    /\ pc = "download_daily"
    /\ \E first \in Responses, resp \in Responses :
         LET r == IF IsRaise(download_zip(first)) THEN download_zip(resp) ELSE download_zip(first) IN
         /\ gets' = IF IsRaise(download_zip(first))
                    THEN gets \o <<DAILY_ZIP_URL, DAILY_ZIP_URL>>
                    ELSE Append(gets, DAILY_ZIP_URL)
         /\ steps' = Append(steps, "download_daily")
         /\ IF IsRaise(r)
            THEN Abort(r) /\ UNCHANGED daily_zip
            ELSE daily_zip' = r.val /\ pc' = "download_hist" /\ UNCHANGED error
    /\ UNCHANGED <<out_file, file0, stdout, hist_zip, daily_csv, hist_csv, daily_df, hist_df,
                   latest, means, rows, call, ret>>

DownloadDaily ==
    /\ pc = "download_daily"
    /\ \E resp \in Responses :
         LET r == download_zip(resp) IN
         /\ gets' = Append(gets, DAILY_ZIP_URL)
         /\ steps' = Append(steps, "download_daily")
         /\ IF IsRaise(r)
            THEN Abort(r) /\ UNCHANGED daily_zip
            ELSE daily_zip' = r.val /\ pc' = "download_hist" /\ UNCHANGED error
    /\ UNCHANGED <<out_file, file0, stdout, hist_zip, daily_csv, hist_csv, daily_df, hist_df,
                   latest, means, rows, call, ret>>

DownloadHist ==
    /\ pc = "download_hist"
    /\ \E resp \in Responses :
         LET r == download_zip(resp) IN
         /\ gets' = Append(gets, HISTORY_ZIP_URL)
         /\ steps' = Append(steps, "download_hist")
         /\ IF IsRaise(r)
            THEN Abort(r) /\ UNCHANGED hist_zip
            ELSE hist_zip' = r.val /\ pc' = "read_daily" /\ UNCHANGED error
    /\ UNCHANGED <<out_file, file0, stdout, daily_zip, daily_csv, hist_csv, daily_df, hist_df,
                   latest, means, rows, call, ret>>

ReadDaily ==
    /\ pc = "read_daily"
    /\ steps' = Append(steps, "read_daily")
    /\ LET r == read_first_csv_from_zip(daily_zip) IN
       IF IsRaise(r)
       THEN Abort(r) /\ UNCHANGED daily_csv
       ELSE daily_csv' = r.val /\ pc' = "parse_daily" /\ UNCHANGED error
    /\ UNCHANGED <<out_file, file0, stdout, gets, daily_zip, hist_zip, hist_csv, daily_df,
                   hist_df, latest, means, rows, call, ret>>

ParseDaily ==
    /\ pc = "parse_daily"
    /\ steps' = Append(steps, "parse_daily")
    /\ LET r == csv_bytes_to_dataframe(daily_csv) IN
       IF IsRaise(r)
       THEN Abort(r) /\ UNCHANGED daily_df
       ELSE daily_df' = r.val /\ pc' = "read_hist" /\ UNCHANGED error
    /\ UNCHANGED <<out_file, file0, stdout, gets, daily_zip, hist_zip, daily_csv, hist_csv,
                   hist_df, latest, means, rows, call, ret>>

ReadHist ==
    /\ pc = "read_hist"
    /\ steps' = Append(steps, "read_hist")
    /\ LET r == read_first_csv_from_zip(hist_zip) IN
       IF IsRaise(r)
       THEN Abort(r) /\ UNCHANGED hist_csv
       ELSE hist_csv' = r.val /\ pc' = "parse_hist" /\ UNCHANGED error
    /\ UNCHANGED <<out_file, file0, stdout, gets, daily_zip, hist_zip, daily_csv, daily_df,
                   hist_df, latest, means, rows, call, ret>>

ParseHist ==
    /\ pc = "parse_hist"
    /\ steps' = Append(steps, "parse_hist")
    /\ LET r == csv_bytes_to_dataframe(hist_csv) IN
       IF IsRaise(r)
       THEN Abort(r) /\ UNCHANGED hist_df
       ELSE hist_df' = r.val /\ pc' = "extract_latest" /\ UNCHANGED error
    /\ UNCHANGED <<out_file, file0, stdout, gets, daily_zip, hist_zip, daily_csv, hist_csv,
                   daily_df, latest, means, rows, call, ret>>

ExtractLatest ==
    /\ pc = "extract_latest"
    /\ steps' = Append(steps, "extract_latest")
    /\ LET r == extract_latest_rates(daily_df, CURRENCIES) IN
       IF IsRaise(r)
       THEN Abort(r) /\ UNCHANGED latest
       ELSE latest' = r.val /\ pc' = "extract_means" /\ UNCHANGED error
    /\ UNCHANGED <<out_file, file0, stdout, gets, daily_zip, hist_zip, daily_csv, hist_csv,
                   daily_df, hist_df, means, rows, call, ret>>

\* an aggregation fed the daily table
ExtractMeans_daily ==
    /\ pc = "extract_means"
    /\ steps' = Append(steps, "extract_means")
    /\ LET r == extract_average_history_rates(daily_df, CURRENCIES) IN
       IF IsRaise(r)
       THEN Abort(r) /\ UNCHANGED means
       ELSE means' = r.val /\ pc' = "build_rows" /\ UNCHANGED error
    /\ UNCHANGED <<out_file, file0, stdout, gets, daily_zip, hist_zip, daily_csv, hist_csv,
                   daily_df, hist_df, latest, rows, call, ret>>

ExtractMeans ==
    /\ pc = "extract_means"
    /\ steps' = Append(steps, "extract_means")
    /\ LET r == extract_average_history_rates(hist_df, CURRENCIES) IN
       IF IsRaise(r)
       THEN Abort(r) /\ UNCHANGED means
       ELSE means' = r.val /\ pc' = "build_rows" /\ UNCHANGED error
    /\ UNCHANGED <<out_file, file0, stdout, gets, daily_zip, hist_zip, daily_csv, hist_csv,
                   daily_df, hist_df, latest, rows, call, ret>>

BuildRows ==
    /\ pc = "build_rows"
    /\ steps' = Append(steps, "build_rows")
    /\ LET r == build_output_rows(latest, means, CURRENCIES) IN
       IF IsRaise(r)
       THEN Abort(r) /\ UNCHANGED rows
       ELSE rows' = r.val /\ pc' = "write" /\ UNCHANGED error
    /\ UNCHANGED <<out_file, file0, stdout, gets, daily_zip, hist_zip, daily_csv, hist_csv,
                   daily_df, hist_df, latest, means, call, ret>>

WriteReport ==
    /\ pc = "write"
    /\ steps' = Append(steps, "write")
    /\ \E env \in Envs :
         LET w == write_markdown_table(rows, out_file, env) IN
         /\ out_file' = w.file
         /\ IF IsRaise(w.out)
            THEN Abort(w.out)
            ELSE pc' = "print" /\ UNCHANGED error
    /\ UNCHANGED <<file0, stdout, gets, daily_zip, hist_zip, daily_csv, hist_csv,
                   daily_df, hist_df, latest, means, rows, call, ret>>

PrintDone ==
    /\ pc = "print"
    /\ steps' = Append(steps, "print")
    /\ stdout' = Append(stdout, <<"done wrote", OUTPUT_FILE>>)
    /\ pc' = "done"
    /\ UNCHANGED <<out_file, file0, error, gets, daily_zip, hist_zip, daily_csv, hist_csv,
                   daily_df, hist_df, latest, means, rows, call, ret>>

Next == \/ DownloadDaily
        \/ DownloadHist
        \/ ReadDaily
        \/ ParseDaily
        \/ ReadHist
        \/ ParseHist
        \/ ExtractLatest
        \/ ExtractMeans
        \/ BuildRows
        \/ WriteReport
        \/ PrintDone

Spec == Init /\ [][Next]_vars

-----------------------------------------------------------------------------
(* Direct calls of the functions, as the tests make them *)

SeqsUpTo(S, n) == UNION {[1..k -> S] : k \in 0..n}

UnitNames == {Name("a", ".csv"), Name("b", ".CSV"), Name("c", ".txt")}
UnitDatas == {CsvOne, CsvThree}
UnitMembers == {Member(n, d) : n \in UnitNames, d \in UnitDatas}
UnitZips == {Junk} \cup {Zip(ms) : ms \in SeqsUpTo(UnitMembers, MaxMembers)}

InitZip == /\ Idle
           /\ ret = Pending
           /\ call \in {[fn |-> "read_first_csv_from_zip", zip_bytes |-> z] : z \in UnitZips}

CallReadFirstCsv ==
    /\ ret = Pending
    /\ call.fn = "read_first_csv_from_zip"
    /\ ret' = read_first_csv_from_zip(call.zip_bytes)
    /\ UNCHANGED <<mainVars, call>>

SpecZip == InitZip /\ [][CallReadFirstCsv]_vars

\* the frames of test_extract_latest_rates_from_one_row_daily and of
\* test_extract_average_history_rates_ignores_missing_values
Labels4 == <<Label("Date"), Label("USD"), Label("SEK"), Label("GBP"), Label("JPY")>>
TestDailyFrame == DataFrame(Labels4,
    <<Row4("2020-01-01", Num(12, 10), Num(10, 1), Num(8, 10), Num(130, 1))>>)
TestHistFrame == DataFrame(Labels4,
    <<Row4("2020-01-01", Num(1, 1), Num(10, 1), Num(8, 10), Num(120, 1)),
      Row4("2020-01-02", Str(""), Num(11, 1), Num(9, 10), Num(121, 1)),
      Row4("2020-01-03", Num(3, 1), Num(12, 1), Num(1, 1), Num(122, 1))>>)
UnitCodes == {"USD", "SEK"}
UnitCells == {Num(1, 1), Num(3, 1), NaN, Str("")}
UnitColumns == {<<>>, <<"USD">>, <<"SEK">>, <<"USD", "SEK">>}
UnitFrame(cols, cells) ==
    DataFrame(<<Label("Date")>> \o [i \in 1..Len(cols) |-> Label(cols[i])],
              [r \in 1..Len(cells) |-> <<Date("2020-01-01")>> \o cells[r]])
UnitTables == UNION {{UnitFrame(cols, cells) :
                         cells \in SeqsUpTo([1..Len(cols) -> UnitCells], MaxRows)} :
                     cols \in UnitColumns}
              \cup {TestDailyFrame, TestHistFrame}
UnitLists == SeqsUpTo(UnitCodes, MaxCodes) \cup {CURRENCIES}

InitExtract ==
    /\ Idle
    /\ ret = Pending
    /\ call \in {[fn |-> f, df |-> t, currencies |-> cs] :
                    f \in {"extract_latest_rates", "extract_average_history_rates"},
                    t \in UnitTables, cs \in UnitLists}

CallExtractLatest ==
    /\ ret = Pending
    /\ call.fn = "extract_latest_rates"
    /\ ret' = extract_latest_rates(call.df, call.currencies)
    /\ UNCHANGED <<mainVars, call>>

CallExtractHistory ==
    /\ ret = Pending
    /\ call.fn = "extract_average_history_rates"
    /\ ret' = extract_average_history_rates(call.df, call.currencies)
    /\ UNCHANGED <<mainVars, call>>

NextExtract == CallExtractLatest \/ CallExtractHistory

SpecExtract == InitExtract /\ [][NextExtract]_vars

\* the dicts over a set of keys and a set of values, in every insertion order
Dicts(K, V) == {d \in SeqsUpTo(K \X V, Cardinality(K)) :
                   \A i, j \in 1..Len(d) : d[i][1] = d[j][1] => i = j}
UnitLatest == Dicts(UnitCodes, {Num(1, 1), Num(12, 10)})
UnitMeans == Dicts(UnitCodes, {Num(3, 1), NaN})

InitRows ==
    /\ Idle
    /\ ret = Pending
    /\ call \in {[fn |-> "build_output_rows", latest_rates |-> l, historical_means |-> m,
                  currencies |-> cs] : l \in UnitLatest, m \in UnitMeans, cs \in UnitLists}

CallBuildRows ==
    /\ ret = Pending
    /\ call.fn = "build_output_rows"
    /\ ret' = build_output_rows(call.latest_rates, call.historical_means, call.currencies)
    /\ UNCHANGED <<mainVars, call>>

SpecRows == InitRows /\ [][CallBuildRows]_vars

\* runs of main() and direct calls of the two extractors
SpecRunsAndCalls == (Init \/ InitExtract) /\ [][Next \/ NextExtract]_vars

-----------------------------------------------------------------------------
(* Properties *)

Returned == ret.st \in {"ok", "raise"}
Min(S) == CHOOSE x \in S : \A y \in S : x <= y

\* the places of the members whose name ends in ".csv", whatever the case
CsvPlaces(zf) == {i \in 1..Len(zf.members) : zf.members[i].name.suffix \in {".csv", ".CSV", ".Csv"}}

\* C3: for an archive listing at least one name that ends in ".csv" (case
\* ignored), read_first_csv_from_zip returns the bytes of the first such
\* member in listing order.
C3_ReturnsFirstCsvMember ==
    (Returned /\ call.fn = "read_first_csv_from_zip" /\ call.zip_bytes.kind = "zip"
              /\ CsvPlaces(call.zip_bytes) # {})
    => ret = Ok(call.zip_bytes.members[Min(CsvPlaces(call.zip_bytes))].data)

\* C4: for an archive listing no name that ends in ".csv" (an archive without
\* members too), read_first_csv_from_zip returns nothing and raises the
\* "no csv files" ValueError, whose message holds the whole member list.
C4_NoCsvRaisesWithMemberList ==
    (Returned /\ call.fn = "read_first_csv_from_zip" /\ call.zip_bytes.kind = "zip"
              /\ CsvPlaces(call.zip_bytes) = {})
    => /\ ret.st = "raise"
       /\ ret.exc = "ValueError"
       /\ ret.what = "no csv files"
       /\ ret.names = [i \in 1..Len(call.zip_bytes.members) |-> call.zip_bytes.members[i].name]

C4_Witness ==
    /\ Returned /\ call.fn = "read_first_csv_from_zip" /\ call.zip_bytes.kind = "zip"
    /\ Len(call.zip_bytes.members) = 2
    /\ CsvPlaces(call.zip_bytes) = {}
    /\ ret.st = "raise"

\* the value a mapping holds for a key
ValueOf(d, k) == d[CHOOSE i \in 1..Len(d) : d[i][1] = k][2]
Range(q) == {q[i] : i \in 1..Len(q)}

\* C8: build_output_rows returns one row per code of the sequence, in the
\* order of the sequence, the i-th row holding the i-th code with its values
\* in the two mappings, whatever the insertion order of the mappings; when a
\* code is absent from a mapping it raises KeyError and returns no rows.
C8_RowsFollowCurrencyOrder ==
    (Returned /\ call.fn = "build_output_rows")
    => IF Range(call.currencies) \subseteq
              (DictKeys(call.latest_rates) \cap DictKeys(call.historical_means))
       THEN /\ ret.st = "ok"
            /\ Len(ret.val) = Len(call.currencies)
            /\ \A i \in 1..Len(call.currencies) :
                 /\ ret.val[i].currency_code = call.currencies[i]
                 /\ ret.val[i].rate = ValueOf(call.latest_rates, call.currencies[i])
                 /\ ret.val[i].mean_historical_rate =
                        ValueOf(call.historical_means, call.currencies[i])
       ELSE ret.st = "raise" /\ ret.exc = "KeyError"

C8_Witness ==
    /\ Returned /\ call.fn = "build_output_rows"
    /\ call.currencies = <<"USD", "SEK">>
    /\ DictKeySeq(call.latest_rates) = <<"SEK", "USD">>
    /\ DictKeySeq(call.historical_means) = <<"USD", "SEK">>
    /\ ret.st = "ok" /\ Len(ret.val) = 2
    /\ ret.val[1].rate # ret.val[2].rate

\* a code is a column label of a table; the cell of a row under that label
IsLabel(df, code) == \E i \in 1..Len(df.columns) :
                        df.columns[i].core = code /\ df.columns[i].lead = 0 /\ df.columns[i].trail = 0
CellAt(df, r, code) ==
    df.data[r][CHOOSE i \in 1..Len(df.columns) :
                  df.columns[i].core = code /\ df.columns[i].lead = 0 /\ df.columns[i].trail = 0]
AllLabels(df, codes) == \A i \in 1..Len(codes) : IsLabel(df, codes[i])
NumericRows(df, code) == {r \in 1..Len(df.data) : CellAt(df, r, code).t = "num"}

\* the sum of the cells of a code in a set of rows, as <<numerator, denominator>>
RECURSIVE Total(_, _, _)
Total(df, code, R) ==
    IF R = {} THEN <<0, 1>>
    ELSE LET r == CHOOSE x \in R : TRUE
             c == CellAt(df, r, code)
             rest == Total(df, code, R \ {r})
         IN <<c.n * rest[2] + rest[1] * c.d, c.d * rest[2]>>

\* m is the sum of the numeric cells of the code divided by their number
IsMeanOfNumericCells(m, df, code) ==
    LET R == NumericRows(df, code)
        tot == Total(df, code, R)
    IN m.t = "num" /\ m.n * (tot[2] * Cardinality(R)) = tot[1] * m.d

LatestConclusion ==
    /\ ret.st = "ok"
    /\ DictKeys(ret.val) = Range(call.currencies)
    /\ \A code \in Range(call.currencies) :
         ValueOf(ret.val, code) = CellAt(call.df, Len(call.df.data), code)

\* C5 as stated: for every table with at least one row and every list of
\* codes that are all column labels, extract_latest_rates returns a mapping
\* whose keys are the requested codes and whose values are the cells of the
\* last row.
C5_LatestFromLastRow ==
    (Returned /\ call.fn = "extract_latest_rates" /\ Len(call.df.data) >= 1
              /\ AllLabels(call.df, call.currencies))
    => LatestConclusion

\* C5 as amended: the same, provided no requested code has a non-numeric
\* string in the last row; when one has, extract_latest_rates raises the
\* ValueError of float() and returns no mapping.
C5_LatestFromLastRowWhenConvertible ==
    (Returned /\ call.fn = "extract_latest_rates" /\ Len(call.df.data) >= 1
              /\ AllLabels(call.df, call.currencies))
    => IF \A code \in Range(call.currencies) :
             CellAt(call.df, Len(call.df.data), code).t # "str"
       THEN LatestConclusion
       ELSE /\ ret.st = "raise" /\ ret.exc = "ValueError"
            /\ ret.what = "could not convert string to float"

C5_Witness ==
    /\ Returned /\ call.fn = "extract_latest_rates"
    /\ call.currencies = <<"SEK", "USD">>
    /\ Len(call.df.data) = 2
    /\ AllLabels(call.df, call.currencies)
    /\ CellAt(call.df, 1, "USD") = Num(1, 1)
    /\ CellAt(call.df, 2, "USD") = Num(3, 1)
    /\ ret.st = "ok"
    /\ ValueOf(ret.val, "USD") = Num(3, 1)

\* C6: extract_average_history_rates returns a mapping exactly when every
\* requested code is a column label, and the mapping then holds, for every
\* requested code with at least one numeric cell, the sum of the numeric
\* cells of its column divided by their number: an empty or non-numeric cell
\* counts neither in the sum nor in the divisor.
C6_MeanOverNumericCells ==
    (Returned /\ call.fn = "extract_average_history_rates")
    => /\ (ret.st = "ok") <=> AllLabels(call.df, call.currencies)
       /\ ret.st = "ok" =>
            \A code \in Range(call.currencies) :
                NumericRows(call.df, code) # {}
                => IsMeanOfNumericCells(ValueOf(ret.val, code), call.df, code)

\* the column [1.0, "", 3.0] of the test has mean 2.0
C6_Witness ==
    /\ Returned /\ call.fn = "extract_average_history_rates"
    /\ call.df = TestHistFrame
    /\ call.currencies = CURRENCIES
    /\ ret.st = "ok"
    /\ ValueOf(ret.val, "USD") = Num(2, 1)
    /\ ValueOf(ret.val, "SEK") = Num(11, 1)

\* C7: for every table, of zero rows too, and every list holding a code that
\* is no column label, both extract_latest_rates and
\* extract_average_history_rates raise the missing-column ValueError, which
\* names the first missing code of the list and the list of all columns.
C7_MissingColumnRaises ==
    (Returned /\ call.fn \in {"extract_latest_rates", "extract_average_history_rates"}
              /\ ~AllLabels(call.df, call.currencies))
    => /\ ret.st = "raise"
       /\ ret.exc = "ValueError"
       /\ ret.what = (IF call.fn = "extract_latest_rates" THEN "not in the ecb column"
                      ELSE "not in the ecb historical columns")
       /\ ret.code = call.currencies[Min({i \in 1..Len(call.currencies) :
                                             ~IsLabel(call.df, call.currencies[i])})]
       /\ ret.columns = call.df.columns

-----------------------------------------------------------------------------
(* Properties of main() *)

\* the k-th call of main() has returned
Completed(k) == Len(steps) > k \/ (Len(steps) = k /\ pc # "failed")
Report == File(<<to_markdown(
              [i \in 1..Len(CURRENCIES) |->
                 [code |-> CURRENCIES[i],
                  rate |-> Fmt6(CellAt(daily_df, Len(daily_df.data), CURRENCIES[i])),
                  mean |-> IF NumericRows(hist_df, CURRENCIES[i]) = {} THEN [k |-> "nan"]
                           ELSE LET tot == Total(hist_df, CURRENCIES[i],
                                                 NumericRows(hist_df, CURRENCIES[i]))
                                IN Fmt6([t |-> "num", n |-> tot[1],
                                         d |-> tot[2] * Cardinality(NumericRows(hist_df, CURRENCIES[i]))])]]),
          Newline>>)

\* C1: a run of main() in which a step fails, the rendering and writing
\* inside write_markdown_table included, leaves the output file as it was
\* before the run; only a run whose every step succeeds changes the file.
C1_FailedRunLeavesFileUntouched ==
    pc \notin {"print", "done"} => out_file = file0

FailureOf(k) ==
    CASE k \in {1, 2} -> error.exc \in {"Timeout", "HTTPError"}
      [] k = 3 -> error = read_first_csv_from_zip(daily_zip)
      [] k = 4 -> error = csv_bytes_to_dataframe(daily_csv)
      [] k = 5 -> error = read_first_csv_from_zip(hist_zip)
      [] k = 6 -> error = csv_bytes_to_dataframe(hist_csv)
      [] k = 7 -> error = extract_latest_rates(daily_df, CURRENCIES)
      [] k = 8 -> error = extract_average_history_rates(hist_df, CURRENCIES)
      [] k = 9 -> error = build_output_rows(latest, means, CURRENCIES)
      [] k = 10 -> error.exc \in {"KeyError", "PermissionError", "ImportError", "OSError"}
      [] OTHER -> FALSE

\* the k-th call returned what main() then holds
Succeeded(k) ==
    CASE k = 1 -> daily_zip.kind \in {"zip", "junk"}
      [] k = 2 -> hist_zip.kind \in {"zip", "junk"}
      [] k = 3 -> Ok(daily_csv) = read_first_csv_from_zip(daily_zip)
      [] k = 4 -> Ok(daily_df) = csv_bytes_to_dataframe(daily_csv)
      [] k = 5 -> Ok(hist_csv) = read_first_csv_from_zip(hist_zip)
      [] k = 6 -> Ok(hist_df) = csv_bytes_to_dataframe(hist_csv)
      [] k = 7 -> Ok(latest) = extract_latest_rates(daily_df, CURRENCIES)
      [] k = 8 -> Ok(means) = extract_average_history_rates(hist_df, CURRENCIES)
      [] k = 9 -> Ok(rows) = build_output_rows(latest, means, CURRENCIES)
      [] k = 10 -> out_file.exists /\ Len(out_file.chunks) = 2
      [] OTHER -> stdout = <<<<"done wrote", OUTPUT_FILE>>>>

C2_State ==
    /\ Len(steps) <= Len(Order)
    /\ \A i \in 1..Len(steps) : steps[i] = Order[i]
    /\ gets = SubSeq(<<DAILY_ZIP_URL, HISTORY_ZIP_URL>>, 1, IF Len(steps) < 2 THEN Len(steps) ELSE 2)
    /\ pc = "failed" => /\ Len(steps) >= 1
                        /\ error.st = "raise"
                        /\ FailureOf(Len(steps))
    /\ pc # "failed" => /\ error = NoError
                        /\ pc = IF Len(steps) = Len(Order) THEN "done" ELSE Order[Len(steps) + 1]
    /\ \A k \in 1..Len(Order) : Completed(k) => Succeeded(k)
    /\ stdout # <<>> => pc = "done" /\ Succeeded(10)

\* C2: main() makes its calls one after the other in the order download
\* daily, download historical, read and parse daily, read and parse
\* historical, extract latest, aggregate, build rows, write, print; each URL
\* is requested once; the first call that raises ends the run with its
\* exception and no later call is made; the confirmation is printed only
\* after the report was written in a run where every call returned.
C2_SequentialFailFast ==
    /\ []C2_State
    /\ [][pc \notin {"failed", "done"} /\ Len(steps') = Len(steps) + 1]_vars

C2_Witness ==
    /\ pc = "failed"
    /\ Len(steps) = 6
    /\ gets = <<DAILY_ZIP_URL, HISTORY_ZIP_URL>>
    /\ error.exc = "ParserError"
    /\ out_file = file0

\* C10: a requested code whose historical column has no numeric cell (none
\* in any row, or no row) makes extract_average_history_rates raise nothing:
\* the mapping holds NaN for it and the mean of the numeric cells for every
\* other code, and in a run of main() the NaN goes through build_output_rows
\* into the report, which is written, with no failure of these calls.
C10_UndefinedMeanIsSilent ==
    /\ (Returned /\ call.fn = "extract_average_history_rates"
                 /\ AllLabels(call.df, call.currencies))
       => /\ ret.st = "ok"
          /\ \A code \in Range(call.currencies) :
               IF NumericRows(call.df, code) = {}
               THEN ValueOf(ret.val, code) = NaN
               ELSE IsMeanOfNumericCells(ValueOf(ret.val, code), call.df, code)
    /\ (pc = "failed" /\ Len(steps) = 8) => ~AllLabels(hist_df, CURRENCIES)
    /\ Completed(8) =>
          \A i \in 1..Len(CURRENCIES) :
             IF NumericRows(hist_df, CURRENCIES[i]) = {}
             THEN ValueOf(means, CURRENCIES[i]) = NaN
             ELSE IsMeanOfNumericCells(ValueOf(means, CURRENCIES[i]), hist_df, CURRENCIES[i])
    /\ pc = "failed" => Len(steps) # 9
    /\ (pc = "failed" /\ Len(steps) = 10) => error.exc \in {"PermissionError", "ImportError", "OSError"}
    /\ pc = "done" =>
          \A i \in 1..Len(CURRENCIES) :
             NumericRows(hist_df, CURRENCIES[i]) = {}
             => /\ rows[i].mean_historical_rate = NaN
                /\ out_file.chunks[1].body[i].mean = [k |-> "nan"]

C10_Witness ==
    /\ pc = "done"
    /\ Len(hist_df.data) = 2
    /\ NumericRows(hist_df, "USD") = {}
    /\ out_file.chunks[1].body[1].mean = [k |-> "nan"]
    /\ out_file.chunks[1].body[2].mean = [k |-> "fixed", whole |-> 10, frac |-> 500000]

=============================================================================
